---- MODULE Spec2Model ----
(***************************************************************************)
(* Model of sentient-trader: the text-intelligence pipeline                *)
(* (ai/sentiment/analyzer.py), the KOL service (app/services/              *)
(* kol_service.py) and the in-memory user store of app/main_simple.py.     *)
(*                                                                         *)
(* Floats are fixed-point integers on a grid of 1/Unit, Unit = 10 * Res,   *)
(* so that 0.1, 0.5 and 1.0 are exact grid points (Res, Half, Unit).       *)
(* Strings that the code inspects character by character (lower(),         *)
(* substring tests, isupper(), len()) are sequences of one-character       *)
(* strings; strings the code only compares for equality are TLA+ strings.  *)
(***************************************************************************)
EXTENDS Integers, Sequences, FiniteSets, TLC

\* ------------------------------------------------------------------ bounds

\* Grid resolution: the float 0.1 is Res grid steps.
Res == 2

\* 1.0 and 0.5 on the grid.
Unit == 10 * Res
Half == 5 * Res

\* ------------------------------------------------------------ characters

UpperChars == <<"A","B","C","D","E","F","G","H","I","J","K","L","M",
                "N","O","P","Q","R","S","T","U","V","W","X","Y","Z">>
LowerChars == <<"a","b","c","d","e","f","g","h","i","j","k","l","m",
                "n","o","p","q","r","s","t","u","v","w","x","y","z">>

UpperSet == { UpperChars[i] : i \in 1..Len(UpperChars) }
LowerSet == { LowerChars[i] : i \in 1..Len(LowerChars) }

IsUpperChar(c) == c \in UpperSet
IsLowerChar(c) == c \in LowerSet

\* str.lower() on one character: cased upper-case letters map to their
\* lower-case letter, everything else is left alone.
LowerChar(c) ==
    IF IsUpperChar(c)
    THEN LowerChars[CHOOSE i \in 1..Len(UpperChars) : UpperChars[i] = c]
    ELSE c

\* str.lower()
Lower(s) == [i \in 1..Len(s) |-> LowerChar(s[i])]

\* Python's `sub in s` on strings.
Contains(sub, s) ==
    \E i \in 0..(Len(s) - Len(sub)) : SubSeq(s, i + 1, i + Len(sub)) = sub

\* The three keywords of _normalize_sentiment_score.
KW_positive == <<"p","o","s","i","t","i","v","e">>
KW_negative == <<"n","e","g","a","t","i","v","e">>
KW_neutral  == <<"n","e","u","t","r","a","l">>

\* ------------------------------------------------- classifier black box

\* Label strings a text-classification pipeline may emit: the three-way
\* vocabulary in several casings, model-specific tokens, and labels that
\* hold more than one keyword.
RawLabels ==
    { <<"p","o","s","i","t","i","v","e">>,
      <<"P","O","S","I","T","I","V","E">>,
      <<"N","e","g","a","t","i","v","e">>,
      <<"n","e","u","t","r","a","l">>,
      <<"L","A","B","E","L","_","0">>,
      <<"L","A","B","E","L","_","1">>,
      <<"n","e","u","t","r","a","l","_","p","o","s","i","t","i","v","e">>,
      <<"N","E","G","A","T","I","V","E","/","n","e","u","t","r","a","l">> }

\* Raw scores on the grid; one step outside [0,1] on either side as well
\* (a pipeline configured to return logits).
RawScores == (0 - 1)..(Unit + 1)

\* One element of the list self.pipeline(text) returns: a dict that may
\* lack either key, and whose label may be None instead of a string.
RawResults ==
    { [keys |-> {"label", "score"}, label_is_str |-> TRUE, label |-> l, score |-> s] :
          l \in RawLabels, s \in RawScores }
    \cup { [keys |-> {"label"}, label_is_str |-> TRUE, label |-> l, score |-> 0] :
          l \in RawLabels }
    \cup { [keys |-> {"score"}, label_is_str |-> TRUE, label |-> <<>>, score |-> s] :
          s \in RawScores }
    \cup { [keys |-> {"label", "score"}, label_is_str |-> FALSE, label |-> <<>>, score |-> s] :
          s \in RawScores }
    \cup { [keys |-> {}, label_is_str |-> TRUE, label |-> <<>>, score |-> 0] }

NoRaw == [keys |-> {}, label_is_str |-> TRUE, label |-> <<>>, score |-> 0]

\* What self.pipeline(text) does in one analyze_text call: raises, returns
\* an empty list, or returns a list whose first element is a raw result.
ClassifierOutcomes ==
    { [kind |-> "raise", result |-> NoRaw], [kind |-> "empty", result |-> NoRaw] }
    \cup { [kind |-> "result", result |-> r] : r \in RawResults }

NoCall == [kind |-> "none", result |-> NoRaw]

\* settings.SENTIMENT_MODEL
SENTIMENT_MODEL == "cardiffnlp/twitter-roberta-base-sentiment-latest"

\* ------------------------------------------------------ SentimentAnalyzer

\* result.get('label', '') and result.get('score', 0.0)
GetLabel(result) == IF "label" \in result.keys THEN result.label ELSE <<>>
GetScore(result) == IF "score" \in result.keys THEN result.score ELSE 0

\* Variants of _normalize_sentiment_score with one slip each.
\* The remap of the else branch forgets to recentre.
normalize_sentiment_score_NoRecentre(result) ==
    LET label == Lower(GetLabel(result))
        score == GetScore(result)
    IN  IF Contains(KW_positive, label) THEN score
        ELSE IF Contains(KW_negative, label) THEN 0 - score
        ELSE IF Contains(KW_neutral, label) THEN 0
        ELSE score * 2

\* The negative branch forgets the sign.
normalize_sentiment_score_NoSign(result) ==
    LET label == Lower(GetLabel(result))
        score == GetScore(result)
    IN  IF Contains(KW_positive, label) THEN score
        ELSE IF Contains(KW_negative, label) THEN score
        ELSE IF Contains(KW_neutral, label) THEN 0
        ELSE (score - Half) * 2

\* The neutral branch is missing.
normalize_sentiment_score_NoNeutral(result) ==
    LET label == Lower(GetLabel(result))
        score == GetScore(result)
    IN  IF Contains(KW_positive, label) THEN score
        ELSE IF Contains(KW_negative, label) THEN 0 - score
        ELSE (score - Half) * 2

\* The remap of the else branch is reversed.
normalize_sentiment_score_Reversed(result) ==
    LET label == Lower(GetLabel(result))
        score == GetScore(result)
    IN  IF Contains(KW_positive, label) THEN score
        ELSE IF Contains(KW_negative, label) THEN 0 - score
        ELSE IF Contains(KW_neutral, label) THEN 0
        ELSE (Half - score) * 2

\* The label is matched as it comes, without .lower().
normalize_sentiment_score_CaseSensitive(result) ==
    LET label == GetLabel(result)
        score == GetScore(result)
    IN  IF Contains(KW_positive, label) THEN score
        ELSE IF Contains(KW_negative, label) THEN 0 - score
        ELSE IF Contains(KW_neutral, label) THEN 0
        ELSE (score - Half) * 2

\* _normalize_sentiment_score, on a result whose label is a string.
normalize_sentiment_score(result) ==
    LET label == Lower(GetLabel(result))
        score == GetScore(result)
    IN  IF Contains(KW_positive, label) THEN score
        ELSE IF Contains(KW_negative, label) THEN 0 - score
        ELSE IF Contains(KW_neutral, label) THEN 0
        ELSE (score - Half) * 2

\* Variant of _get_sentiment_label with inclusive thresholds.
get_sentiment_label_Inclusive(sentiment_score) ==
    IF 10 * sentiment_score >= Unit THEN "positive"
    ELSE IF 10 * sentiment_score <= 0 - Unit THEN "negative"
    ELSE "neutral"

\* _get_sentiment_label: > 0.1, < -0.1 on the grid (0.1 = Unit / 10).
get_sentiment_label(sentiment_score) ==
    IF 10 * sentiment_score > Unit THEN "positive"
    ELSE IF 10 * sentiment_score < 0 - Unit THEN "negative"
    ELSE "neutral"

\* The statements of the try block that can raise: the pipeline call
\* itself, [0] on an empty list (IndexError), .lower() on a label that is
\* not a string (AttributeError).
TryRaises(out) ==
    \/ out.kind = "raise"
    \/ out.kind = "empty"
    \/ (out.kind = "result" /\ "label" \in out.result.keys /\ ~out.result.label_is_str)

\* The dict of the except branch.
FallbackResult ==
    [ status           |-> "returned",
      keys             |-> {"sentiment_score", "sentiment_label", "confidence_score",
                            "error", "model_used", "analysis_timestamp"},
      sentiment_score  |-> 0,
      sentiment_label  |-> "neutral",
      confidence_score |-> 0,
      model_used       |-> SENTIMENT_MODEL ]

\* The dict of the try branch.
SuccessResult(result) ==
    LET sentiment_score == normalize_sentiment_score(result)
    IN  [ status           |-> "returned",
          keys             |-> {"sentiment_score", "sentiment_label", "confidence_score",
                                "raw_result", "model_used", "analysis_timestamp"},
          sentiment_score  |-> sentiment_score,
          sentiment_label  |-> get_sentiment_label(sentiment_score),
          confidence_score |-> GetScore(result),
          model_used       |-> SENTIMENT_MODEL ]

\* What a caller sees when an exception leaves the method.
Propagated ==
    [ status           |-> "raised",
      keys             |-> {},
      sentiment_score  |-> 0,
      sentiment_label  |-> "",
      confidence_score |-> 0,
      model_used       |-> "" ]

\* Before any call.
NoResult ==
    [ status           |-> "none",
      keys             |-> {},
      sentiment_score  |-> 0,
      sentiment_label  |-> "",
      confidence_score |-> 0,
      model_used       |-> "" ]

\* Variants of analyze_text with one slip each.
\* The except clause does not cover the IndexError of [0] on an empty list.
analyze_text_IndexErrorEscapes(out) ==
    IF out.kind = "empty" THEN Propagated
    ELSE IF TryRaises(out) THEN FallbackResult
    ELSE SuccessResult(out.result)

\* The label of the classifier is passed through when it is one of the three.
analyze_text_PassThrough(out) ==
    IF TryRaises(out) THEN FallbackResult
    ELSE LET label == Lower(GetLabel(out.result))
             r     == SuccessResult(out.result)
         IN  IF Contains(KW_positive, label) THEN [r EXCEPT !.sentiment_label = "positive"]
             ELSE IF Contains(KW_negative, label) THEN [r EXCEPT !.sentiment_label = "negative"]
             ELSE r

\* SentimentAnalyzer.analyze_text, given what the pipeline call does.
analyze_text(out) ==
    IF TryRaises(out) THEN FallbackResult ELSE SuccessResult(out.result)

\* ------------------------------------------------- recognizer black box

T_AAPL   == <<"A","A","P","L">>
T_Apple  == <<"A","p","p","l","e"," ","I","n","c">>
T_NVIDIA == <<"N","V","I","D","I","A">>
T_3M     == <<"3","M">>
T_360    == <<"3","6","0">>
T_Paris  == <<"P","a","r","i","s">>

\* The dicts self.pipeline(text) of the recognizer may hold: spans with a
\* 'word' and an 'entity' tag (the four tags the code tests, and I-ORG, a
\* tag of the configured CoNLL-03 model), and dicts that lack either key.
Spans ==
    { [keys |-> {"word", "entity"}, word |-> T_AAPL,   entity |-> "ORG"],
      [keys |-> {"word", "entity"}, word |-> T_AAPL,   entity |-> "LOC"],
      [keys |-> {"word", "entity"}, word |-> T_AAPL,   entity |-> "I-ORG"],
      [keys |-> {"word", "entity"}, word |-> T_Apple,  entity |-> "ORG"],
      [keys |-> {"word", "entity"}, word |-> T_NVIDIA, entity |-> "MISC"],
      [keys |-> {"word", "entity"}, word |-> T_3M,     entity |-> "MISC"],
      [keys |-> {"word", "entity"}, word |-> T_360,    entity |-> "MISC"],
      [keys |-> {"word", "entity"}, word |-> T_Paris,  entity |-> "PER"],
      [keys |-> {"entity"},         word |-> <<>>,     entity |-> "ORG"],
      [keys |-> {"word"},           word |-> T_AAPL,   entity |-> ""] }

\* Longest list of spans the recognizer returns in one call.
MaxSpans == 2

SpanLists == UNION { [1..n -> Spans] : n \in 0..MaxSpans }

\* What self.pipeline(text) does in one extract_entities call.
RecognizerOutcomes ==
    { [kind |-> "raise", entities |-> <<>>] }
    \cup { [kind |-> "list", entities |-> q] : q \in SpanLists }

NoRecognizerCall == [kind |-> "none", entities |-> <<>>]

\* -------------------------------------------------- NamedEntityRecognizer

BucketNames == {"companies", "stocks", "locations", "persons"}

\* str.isupper(): at least one cased character and no lower-case one.
isupper(s) ==
    /\ \E i \in 1..Len(s) : IsUpperChar(s[i])
    /\ ~ \E i \in 1..Len(s) : IsLowerChar(s[i])

\* Variants of the if/elif chain with one slip each.
\* The ticker test forgets isupper().
BucketsOf_NoUpperTest(entity) ==
    LET entity_text == entity.word
        entity_type == entity.entity
    IN  IF entity_type \in {"ORG", "MISC"}
        THEN IF Len(entity_text) <= 5 THEN {"stocks"} ELSE {"companies"}
        ELSE IF entity_type = "LOC" THEN {"locations"}
        ELSE IF entity_type = "PER" THEN {"persons"}
        ELSE {}

\* The company append is not under an else.
BucketsOf_NoElse(entity) ==
    LET entity_text == entity.word
        entity_type == entity.entity
    IN  IF entity_type \in {"ORG", "MISC"}
        THEN IF isupper(entity_text) /\ Len(entity_text) <= 5
             THEN {"stocks", "companies"}
             ELSE {"companies"}
        ELSE IF entity_type = "LOC" THEN {"locations"}
        ELSE IF entity_type = "PER" THEN {"persons"}
        ELSE {}

\* The if/elif chain of one loop iteration: the lists the iteration
\* appends entity_text to.
BucketsOf(entity) ==
    LET entity_text == entity.word
        entity_type == entity.entity
    IN  IF entity_type \in {"ORG", "MISC"}
        THEN IF isupper(entity_text) /\ Len(entity_text) <= 5
             THEN {"stocks"}
             ELSE {"companies"}
        ELSE IF entity_type = "LOC" THEN {"locations"}
        ELSE IF entity_type = "PER" THEN {"persons"}
        ELSE {}

\* entity['word'] or entity['entity'] raises KeyError.
SpanRaises(entity) == ~ ({"word", "entity"} \subseteq entity.keys)

\* The try block raises: the pipeline call, or a KeyError in the loop.
ExtractRaises(out) ==
    \/ out.kind = "raise"
    \/ \E i \in 1..Len(out.entities) : SpanRaises(out.entities[i])

\* The for loop: the four local lists after it, starting from `lists`.
RECURSIVE Loop(_, _)
Loop(ents, lists) ==
    IF ents = <<>> THEN lists
    ELSE LET entity == Head(ents)
             into   == BucketsOf(entity)
         IN  Loop(Tail(ents),
                  [ b \in BucketNames |->
                      IF b \in into THEN Append(lists[b], entity.word) ELSE lists[b] ])

EmptyLists == [ b \in BucketNames |-> <<>> ]

SeqRange(q) == { q[i] : i \in 1..Len(q) }

\* Variant of list(set(xs)) that skips the set: the list as appended.
ListOfSet_NoDedup(xs) == { xs }

\* list(set(xs)): the distinct elements of xs, in an order the hash
\* seed decides.
ListOfSet(xs) ==
    LET S == SeqRange(xs)
    IN  { q \in [1..Cardinality(S) -> S] : SeqRange(q) = S }

\* The bundle of the except branch.
EmptyBundle ==
    [ status |-> "returned", keys |-> BucketNames,
      companies |-> <<>>, stocks |-> <<>>, locations |-> <<>>, persons |-> <<>> ]

NoBundle ==
    [ status |-> "none", keys |-> {},
      companies |-> <<>>, stocks |-> <<>>, locations |-> <<>>, persons |-> <<>> ]

\* What a caller sees when an exception leaves extract_entities.
PropagatedBundle ==
    [ status |-> "raised", keys |-> {},
      companies |-> <<>>, stocks |-> <<>>, locations |-> <<>>, persons |-> <<>> ]

\* Variant of extract_entities: the except clause only covers the KeyError
\* of the loop, a raising pipeline call leaves the method.
extract_entities_PipelineErrorEscapes(out) ==
    IF out.kind = "raise" THEN { PropagatedBundle }
    ELSE IF ExtractRaises(out) THEN { EmptyBundle }
    ELSE LET lists == Loop(out.entities, EmptyLists)
         IN  { [ status |-> "returned", keys |-> BucketNames,
                 companies |-> c, stocks |-> s, locations |-> l, persons |-> p ] :
                   c \in ListOfSet(lists["companies"]),
                   s \in ListOfSet(lists["stocks"]),
                   l \in ListOfSet(lists["locations"]),
                   p \in ListOfSet(lists["persons"]) }

\* Variant of extract_entities: 'companies' is built from the stocks list.
extract_entities_CopyPaste(out) ==
    IF ExtractRaises(out) THEN { EmptyBundle }
    ELSE LET lists == Loop(out.entities, EmptyLists)
         IN  { [ status |-> "returned", keys |-> BucketNames,
                 companies |-> c, stocks |-> s, locations |-> l, persons |-> p ] :
                   c \in ListOfSet(lists["stocks"]),
                   s \in ListOfSet(lists["stocks"]),
                   l \in ListOfSet(lists["locations"]),
                   p \in ListOfSet(lists["persons"]) }

\* Variant of extract_entities: a span lacking 'word' or 'entity' is skipped
\* and the loop goes on with the next span.
extract_entities_SkipsMalformed(out) ==
    IF out.kind = "raise" THEN { EmptyBundle }
    ELSE LET wellformed(entity) == ~SpanRaises(entity)
             lists == Loop(SelectSeq(out.entities, wellformed), EmptyLists)
         IN  { [ status |-> "returned", keys |-> BucketNames,
                 companies |-> c, stocks |-> s, locations |-> l, persons |-> p ] :
                   c \in ListOfSet(lists["companies"]),
                   s \in ListOfSet(lists["stocks"]),
                   l \in ListOfSet(lists["locations"]),
                   p \in ListOfSet(lists["persons"]) }

\* NamedEntityRecognizer.extract_entities: the bundles the call can return,
\* given what the pipeline call does.
extract_entities(out) ==
    IF ExtractRaises(out) THEN { EmptyBundle }
    ELSE LET lists == Loop(out.entities, EmptyLists)
         IN  { [ status |-> "returned", keys |-> BucketNames,
                 companies |-> c, stocks |-> s, locations |-> l, persons |-> p ] :
                   c \in ListOfSet(lists["companies"]),
                   s \in ListOfSet(lists["stocks"]),
                   l \in ListOfSet(lists["locations"]),
                   p \in ListOfSet(lists["persons"]) }

\* For each span of the pipeline's output, the lists of the returned bundle
\* that the loop appended it to (none when the except branch returns).
AssignedBuckets(out) ==
    [ i \in 1..Len(out.entities) |->
        IF ExtractRaises(out) THEN {} ELSE BucketsOf(out.entities[i]) ]

\* ------------------------------------------------- analyze_batch

\* Longest list of texts given to analyze_batch.
MaxBatch == 3

\* What the pipeline does for one text of a batch.
BatchOutcomes ==
    { [kind |-> "raise", result |-> NoRaw],
      [kind |-> "empty", result |-> NoRaw],
      [kind |-> "result",
       result |-> [keys |-> {"label", "score"}, label_is_str |-> TRUE,
                   label |-> <<"P","O","S","I","T","I","V","E">>, score |-> Unit - Res]],
      [kind |-> "result",
       result |-> [keys |-> {"label", "score"}, label_is_str |-> TRUE,
                   label |-> <<"N","e","g","a","t","i","v","e">>, score |-> Unit]],
      [kind |-> "result",
       result |-> [keys |-> {"label", "score"}, label_is_str |-> TRUE,
                   label |-> <<"L","A","B","E","L","_","0">>, score |-> Half]] }

\* For each text of the batch, in input order, what the pipeline does for it.
BatchInputs == UNION { [1..n -> BatchOutcomes] : n \in 0..MaxBatch }

\* Variants of analyze_batch with one slip each.
\* Each result is put at the front of the list.
RECURSIVE analyze_batch_Prepend(_)
analyze_batch_Prepend(outs) ==
    IF outs = <<>> THEN <<>>
    ELSE Append(analyze_batch_Prepend(Tail(outs)), analyze_text(Head(outs)))

\* The loop stops at the first text whose analysis fell back.
RECURSIVE analyze_batch_StopOnError(_)
analyze_batch_StopOnError(outs) ==
    IF outs = <<>> THEN <<>>
    ELSE LET result == analyze_text(Head(outs))
         IN  IF "error" \in result.keys THEN <<result>>
             ELSE <<result>> \o analyze_batch_StopOnError(Tail(outs))

\* SentimentAnalyzer.analyze_batch: for text in texts, append
\* analyze_text(text) to results.
RECURSIVE analyze_batch(_)
analyze_batch(outs) ==
    IF outs = <<>> THEN <<>>
    ELSE <<analyze_text(Head(outs))>> \o analyze_batch(Tail(outs))

\* ------------------------------------------------ SentimentAnalysisService

\* Variant of SentimentAnalyzer.__init__ whose except branch does not re-raise.
SentimentAnalyzer_init_Swallows(load_ok) == "constructed"

\* SentimentAnalyzer.__init__: the loading of tokenizer, model and pipeline
\* succeeds, or the except branch logs and re-raises.
SentimentAnalyzer_init(load_ok) == IF load_ok THEN "constructed" ELSE "raised"

\* NamedEntityRecognizer.__init__: the same for the NER pipeline.
NamedEntityRecognizer_init(load_ok) == IF load_ok THEN "constructed" ELSE "raised"

\* SentimentAnalysisService.__init__: builds the analyzer, then the
\* recognizer, with no try around either.
SentimentAnalysisService_init(sentiment_ok, ner_ok) ==
    IF SentimentAnalyzer_init(sentiment_ok) = "raised" THEN "raised"
    ELSE IF NamedEntityRecognizer_init(ner_ok) = "raised" THEN "raised"
    ELSE "constructed"

T_TSLA == <<"T","S","L","A">>

\* What the classifier does for the text of a post.
PostClassifierOutcomes ==
    { [kind |-> "raise", result |-> NoRaw],
      [kind |-> "empty", result |-> NoRaw],
      [kind |-> "result", result |-> NoRaw],
      [kind |-> "result",
       result |-> [keys |-> {"label", "score"}, label_is_str |-> FALSE,
                   label |-> <<>>, score |-> Unit]],
      [kind |-> "result",
       result |-> [keys |-> {"label", "score"}, label_is_str |-> TRUE,
                   label |-> <<"P","O","S","I","T","I","V","E">>, score |-> Unit - Res]],
      [kind |-> "result",
       result |-> [keys |-> {"label", "score"}, label_is_str |-> TRUE,
                   label |-> <<"p","o","s","i","t","i","v","e">>, score |-> 1]],
      [kind |-> "result",
       result |-> [keys |-> {"label", "score"}, label_is_str |-> TRUE,
                   label |-> <<"N","e","g","a","t","i","v","e">>, score |-> Unit]],
      [kind |-> "result",
       result |-> [keys |-> {"label", "score"}, label_is_str |-> TRUE,
                   label |-> <<"n","e","u","t","r","a","l">>, score |-> 0]],
      [kind |-> "result",
       result |-> [keys |-> {"label", "score"}, label_is_str |-> TRUE,
                   label |-> <<"L","A","B","E","L","_","0">>, score |-> Half]] }

\* What the recognizer returns for the text of a post.
PostSpans ==
    { [keys |-> {"word", "entity"}, word |-> T_TSLA,  entity |-> "ORG"],
      [keys |-> {"word", "entity"}, word |-> T_Apple, entity |-> "ORG"],
      [keys |-> {"entity"},         word |-> <<>>,    entity |-> "ORG"] }

PostRecognizerOutcomes ==
    { [kind |-> "raise", entities |-> <<>>] }
    \cup { [kind |-> "list", entities |-> q] :
             q \in UNION { [1..n -> PostSpans] : n \in 0..MaxSpans } }

\* The (kol_id, post_id) pairs callers pass.
PostKeys == { [kol_id |-> 1, post_id |-> 7], [kol_id |-> 2, post_id |-> 8] }

RecordKeys ==
    {"post_id", "kol_id", "sentiment_score", "sentiment_label", "confidence_score",
     "mentioned_stocks", "mentioned_companies", "model_used", "analysis_timestamp"}

\* Variant of the try branch's dict: the two correlation keys are filled the
\* wrong way round.
ComposedRecord_SwapsIds(sentiment, ents, kol_id, post_id) ==
    [ status              |-> "returned",
      keys                |-> RecordKeys,
      post_id             |-> kol_id,
      kol_id              |-> post_id,
      sentiment_score     |-> sentiment.sentiment_score,
      sentiment_label     |-> sentiment.sentiment_label,
      confidence_score    |-> sentiment.confidence_score,
      mentioned_stocks    |-> ents.stocks,
      mentioned_companies |-> ents.companies,
      model_used          |-> sentiment.model_used ]

\* The dict of the try branch of analyze_social_media_post.
ComposedRecord(sentiment, ents, kol_id, post_id) ==
    [ status              |-> "returned",
      keys                |-> RecordKeys,
      post_id             |-> post_id,
      kol_id              |-> kol_id,
      sentiment_score     |-> sentiment.sentiment_score,
      sentiment_label     |-> sentiment.sentiment_label,
      confidence_score    |-> sentiment.confidence_score,
      mentioned_stocks    |-> ents.stocks,
      mentioned_companies |-> ents.companies,
      model_used          |-> sentiment.model_used ]

\* The dict of the except branch of analyze_social_media_post.
FallbackRecord(kol_id, post_id) ==
    [ status              |-> "returned",
      keys                |-> RecordKeys \cup {"error"},
      post_id             |-> post_id,
      kol_id              |-> kol_id,
      sentiment_score     |-> 0,
      sentiment_label     |-> "neutral",
      confidence_score    |-> 0,
      mentioned_stocks    |-> <<>>,
      mentioned_companies |-> <<>>,
      model_used          |-> SENTIMENT_MODEL ]

\* What a caller sees when an exception leaves analyze_social_media_post.
PropagatedRecord ==
    [ status              |-> "raised",
      keys                |-> {},
      post_id             |-> 0,
      kol_id              |-> 0,
      sentiment_score     |-> 0,
      sentiment_label     |-> "",
      confidence_score    |-> 0,
      mentioned_stocks    |-> <<>>,
      mentioned_companies |-> <<>>,
      model_used          |-> "" ]

\* Before any call.
NoRecord == [ PropagatedRecord EXCEPT !.status = "none" ]

\* Variants of analyze_social_media_post with one slip each.
\* The entities are kept only when the sentiment result carries no error.
analyze_social_media_post_DropsEntities(sentiment, ents, kol_id, post_id) ==
    IF sentiment.status = "raised" \/ ents.status = "raised"
    THEN FallbackRecord(kol_id, post_id)
    ELSE IF "error" \in sentiment.keys
    THEN [ FallbackRecord(kol_id, post_id) EXCEPT !.keys = RecordKeys ]
    ELSE ComposedRecord(sentiment, ents, kol_id, post_id)

\* No try/except, and the record is built reading sentiment_result['raw_result'].
analyze_social_media_post_Unguarded(sentiment, ents, kol_id, post_id) ==
    IF sentiment.status = "raised" \/ ents.status = "raised"
          \/ "raw_result" \notin sentiment.keys
    THEN PropagatedRecord
    ELSE ComposedRecord(sentiment, ents, kol_id, post_id)

\* 'mentioned_stocks' and 'mentioned_companies' are filled the wrong way round.
analyze_social_media_post_Swapped(sentiment, ents, kol_id, post_id) ==
    IF sentiment.status = "raised" \/ ents.status = "raised"
    THEN FallbackRecord(kol_id, post_id)
    ELSE [ ComposedRecord(sentiment, ents, kol_id, post_id) EXCEPT
             !.mentioned_stocks = ents.companies,
             !.mentioned_companies = ents.stocks ]

\* SentimentAnalysisService.analyze_social_media_post, given what the two
\* calls of its try block gave: an exception from either reaches the except
\* branch, otherwise the record is composed from the two results.
analyze_social_media_post(sentiment, ents, kol_id, post_id) ==
    IF sentiment.status = "raised" \/ ents.status = "raised"
    THEN FallbackRecord(kol_id, post_id)
    ELSE ComposedRecord(sentiment, ents, kol_id, post_id)

\* ------------------------------------------- pipeline invocations per call

\* What a second invocation of the classifier on the same text would do, if
\* the method made one.
SecondClassifierOutcomes ==
    { [kind |-> "raise", result |-> NoRaw],
      [kind |-> "result",
       result |-> [keys |-> {"label", "score"}, label_is_str |-> TRUE,
                   label |-> <<"P","O","S","I","T","I","V","E">>, score |-> Unit]] }

\* What a second invocation of the recognizer on the same text would do.
SecondRecognizerOutcomes ==
    { [kind |-> "raise", entities |-> <<>>],
      [kind |-> "list",
       entities |-> << [keys |-> {"word", "entity"}, word |-> T_TSLA, entity |-> "ORG"] >>] }

\* For one text: what the first and the second invocation of the pipeline do.
ClassifierScripts ==
    { <<first, second>> : first \in ClassifierOutcomes, second \in SecondClassifierOutcomes }

RecognizerScripts ==
    { <<first, second>> : first \in PostRecognizerOutcomes, second \in SecondRecognizerOutcomes }

\* Variant of analyze_text that calls the pipeline again when the try block
\* raised.
analyze_text_calls_Retry(script) ==
    IF TryRaises(script[1])
    THEN [invoked |-> 2, result |-> analyze_text(script[2])]
    ELSE [invoked |-> 1, result |-> analyze_text(script[1])]

\* analyze_text with the number of pipeline invocations it makes: the one
\* of the try block; the except branch builds its dict without another.
analyze_text_calls(script) ==
    [invoked |-> 1, result |-> analyze_text(script[1])]

\* extract_entities likewise: one invocation, at the head of the try block.
extract_entities_calls(script) ==
    { [invoked |-> 1, result |-> e] : e \in extract_entities(script[1]) }

\* Variant of the loop of analyze_batch: all texts are submitted first, the
\* results are collected after.
analyze_batch_events_Gathered(n, i) ==
    [ k \in 1..(n - i + 1) |-> [ev |-> "invoke", text |-> i + k - 1] ]
    \o [ k \in 1..(n - i + 1) |-> [ev |-> "append", text |-> i + k - 1] ]

\* The pipeline invocations and the appends of analyze_batch on n texts, in
\* the order the for loop performs them from text i on: analyze_text(text)
\* is a synchronous call whose result is appended before the next iteration.
RECURSIVE analyze_batch_events(_, _)
analyze_batch_events(n, i) ==
    IF i > n THEN <<>>
    ELSE << [ev |-> "invoke", text |-> i], [ev |-> "append", text |-> i] >>
         \o analyze_batch_events(n, i + 1)

\* ------------------------------------------------------------- KOLService
\* The kols table is the sequence of its rows in insertion order.  A row
\* carries the columns the service reads or writes; created_at, which no
\* method touches, is left out.  Timestamps are abstracted to "null" (never
\* written) and "utcnow" (written by the service).  influence_score is a
\* float on the grid of 1/ScoreOne.

\* 1.0 on the grid of influence scores: a factor on the grid of 1/Unit
\* times a weight in tenths.
ScoreOne == 10 * Unit

\* Platform values used by callers (schemas.Platform).
Platforms == {"twitter", "linkedin"}

U_elon == <<"e","l","o","n">>
U_bob  == <<"b","o","b">>

\* A nullable text column.
NullText == [null |-> TRUE, text |-> <<>>]
Text(t) == [null |-> FALSE, text |-> t]

NoRow ==
    [ id |-> 0, name |-> <<>>, username |-> <<>>, platform |-> "", bio |-> NullText,
      followers_count |-> 0, influence_score |-> 0, is_active |-> FALSE,
      updated_at |-> "null" ]

\* KOLCreate bodies: two accounts, each on either platform.
KolCreates ==
    { [ name |-> <<"E","l","o","n"," ","M">>, username |-> U_elon, platform |-> p,
        bio |-> NullText, followers_count |-> 0, influence_score |-> 0 ] :
          p \in Platforms }
    \cup
    { [ name |-> <<"B","o","b">>, username |-> U_bob, platform |-> p,
        bio |-> Text(<<"E","L","O","N"," ","f","a","n">>),
        followers_count |-> 0, influence_score |-> ScoreOne ] : p \in Platforms }

\* A KOLUpdate body: `set` holds the fields the client sent
\* (dict(exclude_unset=True)).
NoUpdate ==
    [ set |-> {}, name |-> <<>>, bio |-> NullText, followers_count |-> 0,
      influence_score |-> 0, is_active |-> FALSE ]

KolUpdates ==
    { NoUpdate,
      [ NoUpdate EXCEPT !.set = {"is_active"}, !.is_active = TRUE ],
      [ NoUpdate EXCEPT !.set = {"is_active"}, !.is_active = FALSE ],
      [ NoUpdate EXCEPT !.set = {"followers_count"}, !.followers_count = 5000 ] }

\* Ids callers pass: the ids of the rows there can be, and one more.
KolIds == 1..3

\* db.query(KOL).filter(KOL.id == kol_id).first(): the position of the row,
\* 0 for None.
RowOf(rows, kol_id) ==
    IF \E i \in 1..Len(rows) : rows[i].id = kol_id
    THEN CHOOSE i \in 1..Len(rows) : rows[i].id = kol_id
    ELSE 0

\* Variant of create_kol whose existence check only looks at active rows.
create_kol_ActiveOnly(rows, kol_data) ==
    IF \E i \in 1..Len(rows) :
          /\ rows[i].username = kol_data.username
          /\ rows[i].platform = kol_data.platform
          /\ rows[i].is_active
    THEN [rows |-> rows, returned |-> "ValueError"]
    ELSE IF \E i \in 1..Len(rows) : rows[i].username = kol_data.username
    THEN [rows |-> rows, returned |-> "IntegrityError"]
    ELSE [ rows |-> Append(rows,
             [ id |-> Len(rows) + 1, name |-> kol_data.name,
               username |-> kol_data.username, platform |-> kol_data.platform,
               bio |-> kol_data.bio, followers_count |-> kol_data.followers_count,
               influence_score |-> kol_data.influence_score, is_active |-> TRUE,
               updated_at |-> "null" ]),
           returned |-> "KOLResponse" ]

\* KOLService.create_kol: ValueError when a row has the same username and
\* platform; otherwise the row is added and committed, and the commit fails
\* with IntegrityError when the username is taken on another platform
\* (KOL.username is unique).
create_kol(rows, kol_data) ==
    IF \E i \in 1..Len(rows) :
          /\ rows[i].username = kol_data.username
          /\ rows[i].platform = kol_data.platform
    THEN [rows |-> rows, returned |-> "ValueError"]
    ELSE IF \E i \in 1..Len(rows) : rows[i].username = kol_data.username
    THEN [rows |-> rows, returned |-> "IntegrityError"]
    ELSE [ rows |-> Append(rows,
             [ id |-> Len(rows) + 1, name |-> kol_data.name,
               username |-> kol_data.username, platform |-> kol_data.platform,
               bio |-> kol_data.bio, followers_count |-> kol_data.followers_count,
               influence_score |-> kol_data.influence_score, is_active |-> TRUE,
               updated_at |-> "null" ]),
           returned |-> "KOLResponse" ]

\* KOLService.update_kol: None for an unknown id; otherwise every field the
\* client sent is set on the row, and updated_at.
update_kol(rows, kol_id, kol_update) ==
    LET i == RowOf(rows, kol_id)
    IN  IF i = 0 THEN [rows |-> rows, returned |-> "None"]
        ELSE LET kol == rows[i]
                 val(field, old, new) == IF field \in kol_update.set THEN new ELSE old
             IN  [ rows |-> [ rows EXCEPT ![i] =
                       [ kol EXCEPT
                           !.name = val("name", kol.name, kol_update.name),
                           !.bio = val("bio", kol.bio, kol_update.bio),
                           !.followers_count =
                               val("followers_count", kol.followers_count,
                                   kol_update.followers_count),
                           !.influence_score =
                               val("influence_score", kol.influence_score,
                                   kol_update.influence_score),
                           !.is_active = val("is_active", kol.is_active, kol_update.is_active),
                           !.updated_at = "utcnow" ] ],
                   returned |-> "KOLResponse" ]

\* Variant of delete_kol that deletes the row.
delete_kol_Hard(rows, kol_id) ==
    LET i == RowOf(rows, kol_id)
    IN  IF i = 0 THEN [rows |-> rows, returned |-> "False"]
        ELSE [ rows |-> SubSeq(rows, 1, i - 1) \o SubSeq(rows, i + 1, Len(rows)),
               returned |-> "True" ]

\* KOLService.delete_kol
delete_kol(rows, kol_id) ==
    LET i == RowOf(rows, kol_id)
    IN  IF i = 0 THEN [rows |-> rows, returned |-> "False"]
        ELSE [ rows |-> [ rows EXCEPT ![i].is_active = FALSE, ![i].updated_at = "utcnow" ],
               returned |-> "True" ]

Min(a, b) == IF a <= b THEN a ELSE b

\* offset(skip).limit(limit) on a result list.
OffsetLimit(q, skip, limit) == SubSeq(q, skip + 1, Min(skip + limit, Len(q)))

\* KOLService.get_kols; platform "" is None.  Without ORDER BY the rows come
\* in table order.
get_kols(rows, skip, limit, active_only, platform) ==
    LET active(kol) == kol.is_active
        on_platform(kol) == kol.platform = platform
        q1 == IF active_only THEN SelectSeq(rows, active) ELSE rows
        q2 == IF platform # "" THEN SelectSeq(q1, on_platform) ELSE q1
    IN  OffsetLimit(q2, skip, limit)

\* KOLService.get_kol_by_id; NoRow is None.
get_kol_by_id(rows, kol_id) ==
    IF RowOf(rows, kol_id) = 0 THEN NoRow ELSE rows[RowOf(rows, kol_id)]

\* column ILIKE '%query%' for a query without wildcard characters; NULL
\* matches nothing.
ilike(column, query) == Contains(Lower(query), Lower(column))

\* ORDER BY influence_score DESC: each row is inserted after the rows whose
\* score is not lower.
RECURSIVE OrderByScoreDesc(_)
OrderByScoreDesc(q) ==
    IF q = <<>> THEN <<>>
    ELSE LET rest == OrderByScoreDesc(SubSeq(q, 1, Len(q) - 1))
             kol  == q[Len(q)]
             notlower(r) == r.influence_score >= kol.influence_score
             lower(r) == r.influence_score < kol.influence_score
         IN  SelectSeq(rest, notlower) \o <<kol>> \o SelectSeq(rest, lower)

\* limit(50) of search_kols.
SEARCH_LIMIT == 50

\* KOLService.search_kols; platform "" and min_followers 0 are falsy, as
\* None is.
search_kols(rows, query, platform, min_followers) ==
    LET hit(kol) ==
            /\ kol.is_active
            /\ \/ ilike(kol.name, query)
               \/ ilike(kol.username, query)
               \/ (~kol.bio.null /\ ilike(kol.bio.text, query))
        on_platform(kol) == kol.platform = platform
        enough(kol) == kol.followers_count >= min_followers
        q1 == SelectSeq(rows, hit)
        q2 == IF platform # "" THEN SelectSeq(q1, on_platform) ELSE q1
        q3 == IF min_followers # 0 THEN SelectSeq(q2, enough) ELSE q2
    IN  OffsetLimit(OrderByScoreDesc(q3), 0, SEARCH_LIMIT)

\* The divisors of the three factors of update_influence_score.
FOLLOWERS_FULL  == 1000000
POSTS_FULL      == 100
ENGAGEMENT_FULL == 1000

\* min(x / full, 1.0) on the grid of 1/Unit.
Factor(x, full) == Min((x * Unit) \div full, Unit)

\* followers_factor * 0.4 + activity_factor * 0.3 + engagement_factor * 0.3
\* on the grid of 1/ScoreOne.
InfluenceScore(followers_count, recent_posts, avg_engagement) ==
    Factor(followers_count, FOLLOWERS_FULL) * 4
    + Factor(recent_posts, POSTS_FULL) * 3
    + Factor(avg_engagement, ENGAGEMENT_FULL) * 3

\* KOLService.update_influence_score, given the count of the KOL's posts of
\* the last 30 days and the average engagement of its posts (0 without posts).
update_influence_score(rows, kol_id, recent_posts, avg_engagement) ==
    LET i == RowOf(rows, kol_id)
    IN  IF i = 0 THEN [rows |-> rows, returned |-> "False"]
        ELSE [ rows |-> [ rows EXCEPT
                   ![i].influence_score =
                       InfluenceScore(rows[i].followers_count, recent_posts, avg_engagement),
                   ![i].updated_at = "utcnow" ],
               returned |-> "True" ]

\* Inputs of the influence-score runs: one account whose follower count is
\* any integer (KOLBase.followers_count has no lower bound), post counts
\* and average engagements from none to above the cap.
ScoreCreates ==
    { [ name |-> <<"E","l","o","n"," ","M">>, username |-> U_elon, platform |-> "twitter",
        bio |-> NullText, followers_count |-> f, influence_score |-> 0 ] :
          f \in {0 - 1000000, 0, 500000, 2000000} }

ScoreUpdates ==
    { [ NoUpdate EXCEPT !.set = {"followers_count"}, !.followers_count = f ] :
          f \in {0 - 500000, 1000000} }

RecentPosts == {0, 50, 200}

AvgEngagements == {0, 500, 2000}

\* No KOLService call yet.
NoKolCall == [op |-> "none", kol_id |-> 0, data |-> NoRow, update |-> NoUpdate,
              posts |-> [recent_posts |-> 0, avg_engagement |-> 0], returned |-> ""]

\* ---------------------------------------- main_simple: in-memory user store
\* The three module globals and the user dicts they refer to.  A dict is a
\* function; the user objects live in a heap, and the two maps hold
\* references to them, as the two Python dicts hold the same object.
\* full_name and created_at, which no handler reads back, are left out of
\* the user dict; updated_at is "null" or "now".

\* d[k] = v
DictSet(d, k, v) == [ x \in (DOMAIN d) \cup {k} |-> IF x = k THEN v ELSE d[x] ]

EmptyDict == [ x \in {} |-> 0 ]

\* str.strip() for the blank " ".
strip(s) ==
    LET inked == { i \in 1..Len(s) : s[i] # " " }
    IN  IF inked = {} THEN <<>>
        ELSE SubSeq(s, CHOOSE i \in inked : \A j \in inked : i <= j,
                       CHOOSE i \in inked : \A j \in inked : i >= j)

\* security.hash_password: a bcrypt hash, not the password.
hash_password(password) == <<"$2b$">> \o password

E_a == <<"a","@","x">>
E_b == <<"b","@","x">>
E_c == <<"c","@","x">>

\* Bodies of POST /api/v1/auth/register.
RegisterPayloads ==
    { [keys |-> {"email", "password"}, email |-> e, password |-> p] :
          e \in { E_a, <<" ","A","@","X"," ">>, E_b, E_c, <<" "," ">> },
          p \in { <<>>, <<"p","w">> } }
    \cup { [keys |-> {"password"}, email |-> <<>>, password |-> <<"p","w">>] }

\* What decode_token makes of the Authorization header: None (no header, or
\* a token that does not verify), or a payload with its 'sub'.
Tokens ==
    { [valid |-> FALSE, sub |-> 0] } \cup { [valid |-> TRUE, sub |-> n] : n \in 1..4 }

\* Bodies of PUT /api/v1/users/me/preferences: with or without the key.
PreferencePayloads ==
    { [keys |-> {}, preferences |-> {}],
      [keys |-> {"preferences"}, preferences |-> {"dark"}] }

\* Variant of register_user that forgets to advance _next_user_id.
register_user_NoIncrement(g, payload) ==
    LET email    == Lower(strip(IF "email" \in payload.keys THEN payload.email ELSE <<>>))
        password == IF "password" \in payload.keys THEN payload.password ELSE <<>>
    IN  IF email = <<>> \/ password = <<>>
        THEN [g |-> g, status |-> 400, detail |-> "email and password are required"]
        ELSE IF email \in DOMAIN g.users_store
        THEN [g |-> g, status |-> 400, detail |-> "Email already registered"]
        ELSE LET ref == Cardinality(DOMAIN g.heap) + 1
                 user_obj == [ id |-> g.next_user_id, email |-> email,
                               password_hash |-> hash_password(password),
                               is_active |-> TRUE, updated_at |-> "null",
                               preferences |-> {} ]
             IN  [ g |-> [ users_store  |-> DictSet(g.users_store, email, ref),
                           users_by_id  |-> DictSet(g.users_by_id, g.next_user_id, ref),
                           next_user_id |-> g.next_user_id,
                           heap         |-> DictSet(g.heap, ref, user_obj) ],
                   status |-> 200, detail |-> "" ]

\* register_user: 400 without email or password, 400 for a known email,
\* otherwise one new user dict entered in both maps.
register_user(g, payload) ==
    LET email    == Lower(strip(IF "email" \in payload.keys THEN payload.email ELSE <<>>))
        password == IF "password" \in payload.keys THEN payload.password ELSE <<>>
    IN  IF email = <<>> \/ password = <<>>
        THEN [g |-> g, status |-> 400, detail |-> "email and password are required"]
        ELSE IF email \in DOMAIN g.users_store
        THEN [g |-> g, status |-> 400, detail |-> "Email already registered"]
        ELSE LET ref == Cardinality(DOMAIN g.heap) + 1
                 user_obj == [ id |-> g.next_user_id, email |-> email,
                               password_hash |-> hash_password(password),
                               is_active |-> TRUE, updated_at |-> "null",
                               preferences |-> {} ]
             IN  [ g |-> [ users_store  |-> DictSet(g.users_store, email, ref),
                           users_by_id  |-> DictSet(g.users_by_id, g.next_user_id, ref),
                           next_user_id |-> g.next_user_id + 1,
                           heap         |-> DictSet(g.heap, ref, user_obj) ],
                   status |-> 200, detail |-> "" ]

\* update_preferences: 401 without a valid token, 404 for an id that is not
\* in _users_by_id, otherwise the user dict gets the preferences of the body
\* ({} when the key is missing) and an updated_at.
update_preferences(g, token, payload) ==
    IF ~token.valid THEN [g |-> g, status |-> 401, detail |-> "Invalid token"]
    ELSE IF token.sub \notin DOMAIN g.users_by_id
    THEN [g |-> g, status |-> 404, detail |-> "User not found"]
    ELSE LET ref == g.users_by_id[token.sub]
             preferences == IF "preferences" \in payload.keys
                            THEN payload.preferences ELSE {}
         IN  [ g |-> [ g EXCEPT !.heap[ref].preferences = preferences,
                                !.heap[ref].updated_at = "now" ],
               status |-> 200, detail |-> "" ]

NoUserCall == [op |-> "none", status |-> 0, detail |-> ""]

\* ------------------------------------------------------------------ state

VARIABLES
    classifier_out,        \* what the pipeline did in the latest analyze_text call
    sentiment_result,      \* what that call returned
    recognizer_out,        \* what the pipeline did in the latest extract_entities call
    entities,              \* the bundle that call returned
    span_buckets,          \* per span of recognizer_out, the lists it was appended to
    batch_outs,            \* per text of the latest analyze_batch call, what the pipeline did
    batch_results,         \* what that call returned
    batch_trace,           \* the pipeline invocations and appends it made, in order
    model_loading,         \* which model loads succeeded when the service was constructed
    service,               \* "unconstructed", "constructed", or "raised" (no object)
    post_in,               \* arguments and pipeline behaviour of the latest post analysis
    post_sentiment,        \* what analyze_text returned inside it
    post_entities,         \* what extract_entities returned inside it
    analysis_result,       \* what analyze_social_media_post returned
    call_script,           \* what successive pipeline invocations do in the latest counted call
    call_made,             \* the invocations that call made, and what it returned
    kols,                  \* the rows of the kols table
    kol_call,              \* the latest KOLService call and what it returned
    users_store,           \* _users_store: normalised email -> user dict (reference)
    users_by_id,           \* _users_by_id: id -> user dict (reference)
    next_user_id,          \* _next_user_id
    user_heap,             \* the user dicts
    registered,            \* the emails of the accepted registrations, in order
    user_call              \* the latest request to the user endpoints and its response

analyzerVars == <<classifier_out, sentiment_result>>

nerVars == <<recognizer_out, entities, span_buckets>>

batchVars == <<batch_outs, batch_results, batch_trace>>

serviceVars == <<model_loading, service, post_in, post_sentiment, post_entities,
                 analysis_result>>

callVars == <<call_script, call_made>>

kolVars == <<kols, kol_call>>

userVars == <<users_store, users_by_id, next_user_id, user_heap, registered, user_call>>

vars == <<analyzerVars, nerVars, batchVars, serviceVars, callVars, kolVars, userVars>>

InitAnalyzer ==
    /\ classifier_out = NoCall
    /\ sentiment_result = NoResult

InitNER ==
    /\ recognizer_out = NoRecognizerCall
    /\ entities = NoBundle
    /\ span_buckets = <<>>

\* No batch analysed yet.
NoBatch == [called |-> FALSE, outs |-> <<>>]

InitBatch ==
    /\ batch_outs = NoBatch
    /\ batch_results = <<>>
    /\ batch_trace = <<>>

NoLoading == [sentiment_ok |-> TRUE, ner_ok |-> TRUE]

NoPost == [classifier |-> NoCall, recognizer |-> NoRecognizerCall,
           kol_id |-> 0, post_id |-> 0]

InitService ==
    /\ model_loading = NoLoading
    /\ service = "unconstructed"
    /\ post_in = NoPost
    /\ post_sentiment = NoResult
    /\ post_entities = NoBundle
    /\ analysis_result = NoRecord

NoScript == [target |-> "none", classifier |-> <<NoCall, NoCall>>,
             recognizer |-> <<NoRecognizerCall, NoRecognizerCall>>]

NoCallMade == [invoked |-> 0, sentiment |-> NoResult, entities |-> NoBundle]

InitCalls ==
    /\ call_script = NoScript
    /\ call_made = NoCallMade

\* An empty table.
InitKOL ==
    /\ kols = <<>>
    /\ kol_call = NoKolCall

\* The module globals as main_simple.py initialises them.
InitUsers ==
    /\ users_store = EmptyDict
    /\ users_by_id = EmptyDict
    /\ next_user_id = 1
    /\ user_heap = EmptyDict
    /\ registered = <<>>
    /\ user_call = NoUserCall

Init ==
    /\ InitAnalyzer /\ InitNER /\ InitBatch /\ InitService
    /\ InitCalls /\ InitKOL /\ InitUsers

\* One call of SentimentAnalyzer.analyze_text(text).
AnalyzeText ==
    /\ \E out \in ClassifierOutcomes :
        /\ classifier_out' = out
        /\ sentiment_result' = analyze_text(out)
    /\ UNCHANGED <<nerVars, batchVars, serviceVars, callVars, kolVars, userVars>>

\* Variant of the call that remembers, on the recognizer object, the texts
\* it has reported, and leaves them out of the next call's bundle.
ExtractEntities_SeenAcrossCalls ==
    /\ \E out \in RecognizerOutcomes :
        /\ recognizer_out' = out
        /\ \E e \in extract_entities(out) :
             LET seen == UNION { SeqRange(entities[b]) : b \in BucketNames }
                 fresh(w) == w \notin seen
             IN  entities' = [ e EXCEPT !.companies = SelectSeq(e.companies, fresh),
                                        !.stocks    = SelectSeq(e.stocks, fresh),
                                        !.locations = SelectSeq(e.locations, fresh),
                                        !.persons   = SelectSeq(e.persons, fresh) ]
        /\ span_buckets' = AssignedBuckets(out)
    /\ UNCHANGED <<analyzerVars, batchVars, serviceVars, callVars, kolVars, userVars>>

\* One call of NamedEntityRecognizer.extract_entities(text).
ExtractEntities ==
    /\ \E out \in RecognizerOutcomes :
        /\ recognizer_out' = out
        /\ entities' \in extract_entities(out)
        /\ span_buckets' = AssignedBuckets(out)
    /\ UNCHANGED <<analyzerVars, batchVars, serviceVars, callVars, kolVars, userVars>>

\* One call of SentimentAnalyzer.analyze_batch(texts).
AnalyzeBatch ==
    /\ \E outs \in BatchInputs :
        /\ batch_outs' = [called |-> TRUE, outs |-> outs]
        /\ batch_results' = analyze_batch(outs)
        /\ batch_trace' = analyze_batch_events(Len(outs), 1)
    /\ UNCHANGED <<analyzerVars, nerVars, serviceVars, callVars, kolVars, userVars>>

\* SentimentAnalysisService(): the two model loads succeed or fail.
ConstructService ==
    /\ service = "unconstructed"
    /\ \E sentiment_ok \in BOOLEAN, ner_ok \in BOOLEAN :
        /\ model_loading' = [sentiment_ok |-> sentiment_ok, ner_ok |-> ner_ok]
        /\ service' = SentimentAnalysisService_init(sentiment_ok, ner_ok)
    /\ UNCHANGED <<analyzerVars, nerVars, batchVars, callVars, kolVars, userVars,
                   post_in, post_sentiment, post_entities, analysis_result>>

\* One call of analyze_social_media_post(text, kol_id, post_id) on a
\* constructed service: analyze_text first, then, unless that raised,
\* extract_entities.
AnalyzePost ==
    /\ service = "constructed"
    /\ \E cout \in PostClassifierOutcomes, rout \in PostRecognizerOutcomes, key \in PostKeys :
        LET sentiment == analyze_text(cout)
        IN  \E ents \in extract_entities(rout) :
              /\ post_in' = [classifier |-> cout, recognizer |-> rout,
                             kol_id |-> key.kol_id, post_id |-> key.post_id]
              /\ post_sentiment' = sentiment
              /\ post_entities' = IF sentiment.status = "raised" THEN NoBundle ELSE ents
              /\ analysis_result' =
                     analyze_social_media_post(sentiment,
                         IF sentiment.status = "raised" THEN NoBundle ELSE ents,
                         key.kol_id, key.post_id)
    /\ UNCHANGED <<analyzerVars, nerVars, batchVars, callVars, kolVars, userVars,
                   model_loading, service>>

\* One analyze_text call, with its pipeline invocations counted.
CountedAnalyzeText ==
    /\ \E script \in ClassifierScripts :
        LET call == analyze_text_calls(script)
        IN  /\ call_script' = [NoScript EXCEPT !.target = "classifier",
                                               !.classifier = script]
            /\ call_made' = [invoked |-> call.invoked, sentiment |-> call.result,
                             entities |-> NoBundle]
    /\ UNCHANGED <<analyzerVars, nerVars, batchVars, serviceVars, kolVars, userVars>>

\* One extract_entities call, with its pipeline invocations counted.
CountedExtractEntities ==
    /\ \E script \in RecognizerScripts :
        \E call \in extract_entities_calls(script) :
            /\ call_script' = [NoScript EXCEPT !.target = "recognizer",
                                               !.recognizer = script]
            /\ call_made' = [invoked |-> call.invoked, sentiment |-> NoResult,
                             entities |-> call.result]
    /\ UNCHANGED <<analyzerVars, nerVars, batchVars, serviceVars, kolVars, userVars>>

\* One call of KOLService.create_kol with a body from `bodies`.
CreateKol(bodies) ==
    /\ \E kol_data \in bodies :
        LET call == create_kol(kols, kol_data)
        IN  /\ kols' = call.rows
            /\ kol_call' = [NoKolCall EXCEPT
                               !.op = "create_kol",
                               !.data = [NoRow EXCEPT !.username = kol_data.username,
                                                      !.platform = kol_data.platform],
                               !.returned = call.returned]
    /\ UNCHANGED <<analyzerVars, nerVars, batchVars, serviceVars, callVars, userVars>>

\* One call of KOLService.update_kol with a body from `bodies`.
UpdateKol(bodies) ==
    /\ \E kol_id \in KolIds, kol_update \in bodies :
        LET call == update_kol(kols, kol_id, kol_update)
        IN  /\ kols' = call.rows
            /\ kol_call' = [NoKolCall EXCEPT !.op = "update_kol", !.kol_id = kol_id,
                                             !.update = kol_update,
                                             !.returned = call.returned]
    /\ UNCHANGED <<analyzerVars, nerVars, batchVars, serviceVars, callVars, userVars>>

\* One call of KOLService.delete_kol.
DeleteKol ==
    /\ \E kol_id \in KolIds :
        LET call == delete_kol(kols, kol_id)
        IN  /\ kols' = call.rows
            /\ kol_call' = [NoKolCall EXCEPT !.op = "delete_kol", !.kol_id = kol_id,
                                             !.returned = call.returned]
    /\ UNCHANGED <<analyzerVars, nerVars, batchVars, serviceVars, callVars, userVars>>

\* One call of KOLService.update_influence_score; the two aggregates over
\* the posts table are what the database reports for the KOL.
UpdateInfluenceScore ==
    /\ \E kol_id \in KolIds, recent_posts \in RecentPosts, avg_engagement \in AvgEngagements :
        LET call == update_influence_score(kols, kol_id, recent_posts, avg_engagement)
        IN  /\ kols' = call.rows
            /\ kol_call' = [NoKolCall EXCEPT
                               !.op = "update_influence_score", !.kol_id = kol_id,
                               !.posts = [recent_posts |-> recent_posts,
                                          avg_engagement |-> avg_engagement],
                               !.returned = call.returned]
    /\ UNCHANGED <<analyzerVars, nerVars, batchVars, serviceVars, callVars, userVars>>

\* The module globals as one record.
Globals ==
    [ users_store |-> users_store, users_by_id |-> users_by_id,
      next_user_id |-> next_user_id, heap |-> user_heap ]

\* POST /api/v1/auth/register
RegisterUser ==
    /\ \E payload \in RegisterPayloads :
        LET call == register_user(Globals, payload)
        IN  /\ users_store' = call.g.users_store
            /\ users_by_id' = call.g.users_by_id
            /\ next_user_id' = call.g.next_user_id
            /\ user_heap' = call.g.heap
            /\ registered' = IF call.status = 200
                              THEN Append(registered, Lower(strip(payload.email)))
                              ELSE registered
            /\ user_call' = [op |-> "register_user", status |-> call.status,
                             detail |-> call.detail]
    /\ UNCHANGED <<analyzerVars, nerVars, batchVars, serviceVars, callVars, kolVars>>

\* PUT /api/v1/users/me/preferences
UpdatePreferences ==
    /\ \E token \in Tokens, payload \in PreferencePayloads :
        LET call == update_preferences(Globals, token, payload)
        IN  /\ users_store' = call.g.users_store
            /\ users_by_id' = call.g.users_by_id
            /\ next_user_id' = call.g.next_user_id
            /\ user_heap' = call.g.heap
            /\ user_call' = [op |-> "update_preferences", status |-> call.status,
                             detail |-> call.detail]
    /\ UNCHANGED <<analyzerVars, nerVars, batchVars, serviceVars, callVars, kolVars,
                   registered>>

NextAnalyzer == AnalyzeText

NextNER == ExtractEntities

NextBatch == AnalyzeBatch

NextService == ConstructService \/ AnalyzePost

NextCalls == CountedAnalyzeText \/ CountedExtractEntities

NextKOL == CreateKol(KolCreates) \/ UpdateKol(KolUpdates) \/ DeleteKol

NextInfluence == CreateKol(ScoreCreates) \/ UpdateKol(ScoreUpdates) \/ UpdateInfluenceScore

NextUsers == RegisterUser \/ UpdatePreferences

SpecAnalyzer == Init /\ [][NextAnalyzer]_vars

SpecNER == Init /\ [][NextNER]_vars

SpecBatch == Init /\ [][NextBatch]_vars

SpecService == Init /\ [][NextService]_vars

SpecCalls == Init /\ [][NextCalls]_vars

SpecKOL == Init /\ [][NextKOL]_vars

SpecInfluence == Init /\ [][NextInfluence]_vars

SpecUsers == Init /\ [][NextUsers]_vars

\* ================================================================ claims
\* ------------------------------------------------- SentimentAnalyzer (C1-C7)

\* The latest call got a raw result dict from the classifier.
GotResult == classifier_out.kind = "result"

RawKeys  == classifier_out.result.keys
RawLabel == classifier_out.result.label
RawScore == classifier_out.result.score

\* The raw label is a string holding the keyword, case-insensitively.
LabelHas(kw) ==
    /\ GotResult
    /\ "label" \in RawKeys
    /\ classifier_out.result.label_is_str
    /\ Contains(kw, Lower(RawLabel))

\* The raw label is a string holding none of the three keywords (a missing
\* label counts as the empty string, as result.get('label', '') does).
LabelUnrecognized ==
    /\ GotResult
    /\ classifier_out.result.label_is_str
    /\ LET l == Lower(IF "label" \in RawKeys THEN RawLabel ELSE <<>>)
       IN  ~Contains(KW_positive, l) /\ ~Contains(KW_negative, l) /\ ~Contains(KW_neutral, l)

\* The raw result carries a score in [0,1].
ScoreIn01 == GotResult /\ "score" \in RawKeys /\ RawScore \in 0..Unit

\* C1: when the classifier call raises or returns an empty list,
\* analyze_text does not raise and returns score 0.0, label 'neutral',
\* confidence 0.0.
C1_FallbackOnClassifierFailure ==
    classifier_out.kind \in {"raise", "empty"} =>
        /\ sentiment_result.status = "returned"
        /\ sentiment_result.sentiment_score = 0
        /\ sentiment_result.sentiment_label = "neutral"
        /\ sentiment_result.confidence_score = 0

C1_Witness ==
    /\ classifier_out.kind = "empty"
    /\ sentiment_result.status = "returned"
    /\ "error" \in sentiment_result.keys

\* C2: for every raw output whose score lies in [0,1], whatever its label,
\* the returned sentiment_score lies in [-1,1].
C2_ScoreInRange ==
    ScoreIn01 =>
        /\ sentiment_result.status = "returned"
        /\ sentiment_result.sentiment_score \in (0 - Unit)..Unit

C2_Witness ==
    /\ ScoreIn01
    /\ LabelUnrecognized
    /\ RawScore = 0
    /\ sentiment_result.sentiment_score = 0 - Unit

\* C3: for s in [0,1], a label containing 'positive' gives s, and a label
\* containing 'negative' and not 'positive' gives -s.
C3_SignedByLabel ==
    ScoreIn01 =>
        /\ LabelHas(KW_positive) => sentiment_result.sentiment_score = RawScore
        /\ (LabelHas(KW_negative) /\ ~LabelHas(KW_positive)) =>
               sentiment_result.sentiment_score = 0 - RawScore

C3_Witness ==
    /\ ScoreIn01
    /\ RawLabel = <<"N","e","g","a","t","i","v","e">>
    /\ RawScore = Unit
    /\ sentiment_result.sentiment_score = 0 - Unit

\* C4 as stated: for any label containing 'neutral' the normalized score
\* is 0.0 regardless of s.
C4_Original ==
    (LabelHas(KW_neutral) /\ ScoreIn01) =>
        sentiment_result.sentiment_score = 0

\* C4 amended: for any label containing 'neutral' and neither 'positive'
\* nor 'negative', the normalized score is 0.0 regardless of s.
C4_NeutralWhenOnlyNeutral ==
    (LabelHas(KW_neutral) /\ ~LabelHas(KW_positive) /\ ~LabelHas(KW_negative)) =>
        sentiment_result.sentiment_score = 0

C4_Witness ==
    /\ LabelHas(KW_neutral)
    /\ ~LabelHas(KW_positive)
    /\ ~LabelHas(KW_negative)
    /\ "score" \in RawKeys
    /\ RawScore = Unit
    /\ sentiment_result.sentiment_score = 0

\* C5: for a label with none of the keywords the normalized score is
\* (s - 0.5) * 2, and over two calls with such labels s1 <= s2 implies
\* normalized(s1) <= normalized(s2).
C5_LinearRemapMonotonic ==
    [][ /\ LabelUnrecognized' =>
            sentiment_result'.sentiment_score =
                2 * (IF "score" \in RawKeys' THEN RawScore' ELSE 0) - Unit
        /\ (LabelUnrecognized /\ LabelUnrecognized'
              /\ "score" \in RawKeys /\ "score" \in RawKeys'
              /\ RawScore <= RawScore') =>
            sentiment_result.sentiment_score <= sentiment_result'.sentiment_score
      ]_vars

C5_Witness ==
    /\ LabelUnrecognized
    /\ RawLabel = <<"L","A","B","E","L","_","0">>
    /\ "score" \in RawKeys
    /\ RawScore = Half + Res
    /\ sentiment_result.sentiment_score = 2 * Res

\* The latest call returned the dict of the try branch.
OnSuccessPath ==
    sentiment_result.status = "returned" /\ "raw_result" \in sentiment_result.keys

\* C6: the label follows from the normalized score by exclusive
\* thresholds: > 0.1 positive, < -0.1 negative, otherwise neutral; exactly
\* 0.1 and exactly -0.1 are neutral.
C6_ExclusiveThresholds ==
    OnSuccessPath =>
        LET x == sentiment_result.sentiment_score
            l == sentiment_result.sentiment_label
        IN  /\ (10 * x > Unit) => l = "positive"
            /\ (10 * x < 0 - Unit) => l = "negative"
            /\ (10 * x <= Unit /\ 10 * x >= 0 - Unit) => l = "neutral"
            /\ (x = Res \/ x = 0 - Res) => l = "neutral"

C6_Witness ==
    /\ OnSuccessPath
    /\ sentiment_result.sentiment_score = 0 - Res
    /\ sentiment_result.sentiment_label = "neutral"

\* C7: in every result analyze_text returns, try branch and except branch
\* alike, the label is the threshold function of that result's score; a raw
\* 'positive' with a score of at most 0.1 comes out 'neutral'.
C7_LabelIsFunctionOfScore ==
    sentiment_result.status # "none" =>
        /\ sentiment_result.status = "returned"
        /\ sentiment_result.sentiment_label =
               get_sentiment_label(sentiment_result.sentiment_score)
        /\ (LabelHas(KW_positive) /\ "score" \in RawKeys
              /\ RawScore >= 0 /\ RawScore <= Res) =>
               sentiment_result.sentiment_label = "neutral"

C7_Witness ==
    /\ GotResult
    /\ RawLabel = <<"p","o","s","i","t","i","v","e">>
    /\ "score" \in RawKeys
    /\ RawScore = 1
    /\ sentiment_result.sentiment_label = "neutral"

\* --------------------------------------------- NamedEntityRecognizer (C8-C10)

\* The latest extract_entities call got a list of well-formed spans, so the
\* loop ran to its end.
LoopCompleted == recognizer_out.kind = "list" /\ ~ExtractRaises(recognizer_out)

SpanCount == Len(recognizer_out.entities)
SpanAt(i) == recognizer_out.entities[i]

\* The strings of one bucket of the returned bundle.
Bucket(b) ==
    CASE b = "companies" -> SeqRange(entities.companies)
      [] b = "stocks"    -> SeqRange(entities.stocks)
      [] b = "locations" -> SeqRange(entities.locations)
      [] b = "persons"   -> SeqRange(entities.persons)

\* Span i went to bucket b and to no other, and its text is in b.
WentTo(i, b) == span_buckets[i] = {b} /\ SpanAt(i).word \in Bucket(b)

\* Python's str.isupper() and len() <= 5, spelled out for the claim.
TickerLike(w) ==
    /\ Len(w) <= 5
    /\ \E k \in 1..Len(w) : w[k] \in UpperSet
    /\ \A k \in 1..Len(w) : w[k] \notin LowerSet

\* C8: ORG/MISC with fully upper-case text of length <= 5 goes to 'stocks',
\* ORG/MISC otherwise to 'companies', LOC to 'locations', PER to 'persons'
\* (fully upper-case as str.isupper() has it: "3M" is, "360" is not).
C8_BucketingRule ==
    LoopCompleted =>
        \A i \in 1..SpanCount :
            LET e == SpanAt(i)
            IN  /\ (e.entity \in {"ORG", "MISC"} /\ TickerLike(e.word)) => WentTo(i, "stocks")
                /\ (e.entity \in {"ORG", "MISC"} /\ ~TickerLike(e.word)) => WentTo(i, "companies")
                /\ e.entity = "LOC" => WentTo(i, "locations")
                /\ e.entity = "PER" => WentTo(i, "persons")
                /\ (e.word = T_AAPL /\ e.entity = "ORG") => WentTo(i, "stocks")
                /\ (e.word = T_3M /\ e.entity = "MISC") => WentTo(i, "stocks")
                /\ (e.word = T_Apple /\ e.entity = "ORG") => WentTo(i, "companies")
                /\ (e.word = T_NVIDIA /\ e.entity = "MISC") => WentTo(i, "companies")
                /\ (e.word = T_360 /\ e.entity = "MISC") => WentTo(i, "companies")

C8_Witness ==
    /\ LoopCompleted
    /\ SpanCount = 2
    /\ SpanAt(1).word = T_AAPL /\ SpanAt(1).entity = "ORG"
    /\ SpanAt(2).word = T_360 /\ SpanAt(2).entity = "MISC"
    /\ entities.stocks = <<T_AAPL>>
    /\ entities.companies = <<T_360>>

\* C9 as stated: every span the recognizer returns in one call is assigned
\* to exactly one of the four buckets (read for spans that carry a text and
\* a tag, as the recognizer interface has them).
C9_Original ==
    LoopCompleted =>
        \A i \in 1..SpanCount : Cardinality(span_buckets[i]) = 1

\* C9 amended: in a call whose spans all carry a text and a tag, every span
\* tagged ORG, MISC, LOC or PER is assigned to exactly one bucket, a span
\* with any other tag is assigned to none, and no span is assigned to two;
\* every string of the returned bundle comes from a span assigned to its
\* bucket.
C9_ExactlyOneForKnownTags ==
    LoopCompleted =>
        /\ \A i \in 1..SpanCount :
              /\ SpanAt(i).entity \in {"ORG", "MISC", "LOC", "PER"} =>
                     \E b \in BucketNames : WentTo(i, b)
              /\ SpanAt(i).entity \notin {"ORG", "MISC", "LOC", "PER"} =>
                     span_buckets[i] = {}
              /\ Cardinality(span_buckets[i]) <= 1
        /\ \A b \in BucketNames : \A w \in Bucket(b) :
              \E i \in 1..SpanCount : SpanAt(i).word = w /\ b \in span_buckets[i]

C9_Witness ==
    /\ LoopCompleted
    /\ SpanCount = 2
    /\ SpanAt(1).entity = "I-ORG" /\ span_buckets[1] = {}
    /\ SpanAt(2).entity = "ORG" /\ span_buckets[2] = {"stocks"}
    /\ entities.stocks = <<T_AAPL>>
    /\ entities.companies = <<>>

\* C10 as stated: in one returned bundle no string appears in more than one
\* of companies, stocks, locations, persons.
C10_Original ==
    \A b1, b2 \in BucketNames : b1 # b2 => Bucket(b1) \cap Bucket(b2) = {}

\* C10 amended: in one returned bundle no string is in both companies and
\* stocks, and a string is in two buckets only when the recognizer reported
\* that text in two spans with different tags.
C10_DisjointUnlessTaggedTwice ==
    /\ Bucket("companies") \cap Bucket("stocks") = {}
    /\ \A b1, b2 \in BucketNames : \A w \in Bucket(b1) \cap Bucket(b2) :
          b1 # b2 =>
              \E i, j \in 1..SpanCount :
                  /\ SpanAt(i).word = w /\ SpanAt(j).word = w
                  /\ SpanAt(i).entity # SpanAt(j).entity
                  /\ b1 \in span_buckets[i] /\ b2 \in span_buckets[j]

C10_Witness ==
    /\ LoopCompleted
    /\ T_AAPL \in Bucket("stocks")
    /\ T_AAPL \in Bucket("locations")

\* The list of one bucket of the returned bundle.
BucketList(b) ==
    CASE b = "companies" -> entities.companies
      [] b = "stocks"    -> entities.stocks
      [] b = "locations" -> entities.locations
      [] b = "persons"   -> entities.persons

\* C11: within each returned bucket no string occurs twice, however often
\* the recognizer reports the same text under the same tag; and, when the
\* loop ran to its end, a string is in a bucket exactly when at least one
\* span maps to that bucket.
C11_DedupPerBucket ==
    /\ \A b \in BucketNames :
          \A i, j \in 1..Len(BucketList(b)) :
              BucketList(b)[i] = BucketList(b)[j] => i = j
    /\ LoopCompleted =>
          \A b \in BucketNames : \A k \in 1..SpanCount :
              b \in span_buckets[k] => SpanAt(k).word \in Bucket(b)
    /\ LoopCompleted =>
          \A b \in BucketNames : \A w \in Bucket(b) :
              \E k \in 1..SpanCount : SpanAt(k).word = w /\ b \in span_buckets[k]

C11_Witness ==
    /\ LoopCompleted
    /\ SpanCount = 2
    /\ SpanAt(1) = SpanAt(2)
    /\ SpanAt(1).word = T_AAPL /\ SpanAt(1).entity = "ORG"
    /\ entities.stocks = <<T_AAPL>>

\* C12: when the recognizer call fails, extract_entities does not raise and
\* returns four empty buckets.
C12_EmptyBundleOnRecognizerFailure ==
    recognizer_out.kind = "raise" =>
        /\ entities.status = "returned"
        /\ entities.companies = <<>>
        /\ entities.stocks = <<>>
        /\ entities.locations = <<>>
        /\ entities.persons = <<>>

C12_Witness ==
    /\ recognizer_out.kind = "raise"
    /\ entities.status = "returned"
    /\ \A b \in BucketNames : Bucket(b) = {}

\* --------------------------------------------------- analyze_batch (C17-C18)

BatchLen == Len(batch_outs.outs)

\* C17: analyze_batch returns a list as long as its input, the empty input
\* included, whose i-th element is the analysis of the i-th text: it carries
\* an error exactly when the classifier failed on that text, and otherwise
\* the confidence the classifier gave for that text.
C17_BatchSameLengthSameOrder ==
    batch_outs.called =>
        /\ Len(batch_results) = BatchLen
        /\ \A i \in 1..BatchLen :
              /\ batch_results[i].status = "returned"
              /\ TryRaises(batch_outs.outs[i]) <=> "error" \in batch_results[i].keys
              /\ ~TryRaises(batch_outs.outs[i]) =>
                     batch_results[i].confidence_score = batch_outs.outs[i].result.score

C17_Witness ==
    /\ batch_outs.called
    /\ BatchLen = 3
    /\ Len(batch_results) = 3
    /\ batch_outs.outs[1].kind = "result" /\ batch_results[1].sentiment_label = "positive"
    /\ batch_outs.outs[2].kind = "raise"  /\ "error" \in batch_results[2].keys
    /\ batch_outs.outs[3].kind = "result" /\ batch_results[3].sentiment_label = "negative"

\* C18: a classifier failure on item i puts the fallback result at position
\* i only; every other position j holds the score, label and confidence
\* analyze_text gives for text j alone, and the batch is not cut short.
C18_FailureIsPerItem ==
    batch_outs.called =>
        \A i \in 1..BatchLen :
            TryRaises(batch_outs.outs[i]) =>
                /\ Len(batch_results) = BatchLen
                /\ batch_results[i].sentiment_score = 0
                /\ batch_results[i].sentiment_label = "neutral"
                /\ batch_results[i].confidence_score = 0
                /\ \A j \in (1..BatchLen) \ {i} :
                      LET alone == analyze_text(batch_outs.outs[j])
                      IN  /\ batch_results[j].sentiment_score = alone.sentiment_score
                          /\ batch_results[j].sentiment_label = alone.sentiment_label
                          /\ batch_results[j].confidence_score = alone.confidence_score

C18_Witness ==
    /\ batch_outs.called
    /\ BatchLen = 2
    /\ batch_outs.outs[1].kind = "empty"
    /\ batch_results[1].sentiment_label = "neutral"
    /\ batch_outs.outs[2].kind = "result"
    /\ batch_results[2].sentiment_score = 0 - Unit
    /\ batch_results[2].sentiment_label = "negative"

\* ---------------------------------------- SentimentAnalysisService (C13-C20)

\* A post has been analysed.
PostAnalysed == post_in.classifier.kind # "none"

\* The classifier, the recognizer failed inside the latest post analysis.
SentimentFailed == PostAnalysed /\ TryRaises(post_in.classifier)
EntitiesFailed  == PostAnalysed /\ ExtractRaises(post_in.recognizer)

\* The texts the recognizer reported in the latest post analysis that the
\* bucketing rule sends to bucket b.
ReportedFor(b) ==
    { post_in.recognizer.entities[i].word :
        i \in { k \in 1..Len(post_in.recognizer.entities) :
                  b \in BucketsOf(post_in.recognizer.entities[k]) } }

\* C13: inside analyze_social_media_post a classifier failure with a
\* recognizer success gives a record with neutral / 0.0 sentiment and the
\* recognizer's tickers and companies; a recognizer failure with a classifier
\* success gives a record with the real sentiment and empty entity lists.
C13_IndependentFailures ==
    /\ (SentimentFailed /\ ~EntitiesFailed) =>
          /\ analysis_result.status = "returned"
          /\ analysis_result.sentiment_score = 0
          /\ analysis_result.sentiment_label = "neutral"
          /\ analysis_result.confidence_score = 0
          /\ SeqRange(analysis_result.mentioned_stocks) = ReportedFor("stocks")
          /\ SeqRange(analysis_result.mentioned_companies) = ReportedFor("companies")
    /\ (EntitiesFailed /\ ~SentimentFailed) =>
          /\ analysis_result.status = "returned"
          /\ analysis_result.sentiment_score =
                 normalize_sentiment_score(post_in.classifier.result)
          /\ analysis_result.sentiment_label =
                 get_sentiment_label(analysis_result.sentiment_score)
          /\ analysis_result.confidence_score = GetScore(post_in.classifier.result)
          /\ analysis_result.mentioned_stocks = <<>>
          /\ analysis_result.mentioned_companies = <<>>

C13_Witness ==
    /\ SentimentFailed
    /\ ~EntitiesFailed
    /\ analysis_result.sentiment_label = "neutral"
    /\ analysis_result.mentioned_stocks = <<T_TSLA>>
    /\ analysis_result.mentioned_companies = <<T_Apple>>

\* C14: the record returned by analyze_social_media_post flags whichever
\* sub-analysis failed: after a classifier failure or a recognizer failure
\* it carries a failure field, which a record of a neutral post or of a
\* post without entities does not.
C14_RecordFlagsFailure ==
    /\ (SentimentFailed \/ EntitiesFailed) => "error" \in analysis_result.keys
    /\ (PostAnalysed /\ ~SentimentFailed /\ ~EntitiesFailed) =>
          "error" \notin analysis_result.keys

\* C15: on an inference failure the component attaches the failure detail
\* to the result it returns, analyze_text and extract_entities alike.
C15_FailureDetailAttached ==
    /\ SentimentFailed => "error" \in post_sentiment.keys
    /\ EntitiesFailed => "error" \in post_entities.keys

\* C16: on a constructed service analyze_social_media_post never raises:
\* for every classifier outcome (valid, malformed, error) and every
\* recognizer outcome (valid, malformed spans, error) it returns a record.
C16_PostAnalysisNeverRaises ==
    /\ analysis_result.status # "raised"
    /\ PostAnalysed =>
          /\ analysis_result.status = "returned"
          /\ RecordKeys \subseteq analysis_result.keys

C16_Witness ==
    /\ post_in.classifier.kind = "raise"
    /\ post_in.recognizer.kind = "list"
    /\ EntitiesFailed
    /\ analysis_result.status = "returned"

\* C19: a model-loading failure is fatal: when loading the classifier or the
\* recognizer fails the construction raises, no service object exists, and
\* no analysis call is ever answered.
C19_LoadFailureIsFatal ==
    (~model_loading.sentiment_ok \/ ~model_loading.ner_ok) =>
        /\ service = "raised"
        /\ ~PostAnalysed
        /\ analysis_result.status = "none"

C19_Witness ==
    /\ model_loading.sentiment_ok
    /\ ~model_loading.ner_ok
    /\ service = "raised"

\* C20: when both models succeed the record is the composition of the two
\* analyses: score, label and confidence of analyze_text on the same
\* classifier output, tickers = the 'stocks' bucket, companies = the
\* 'companies' bucket; POSITIVE at 0.9 with [TSLA/ORG] gives 0.9,
\* 'positive', tickers [TSLA], no companies.
C20_RecordIsComposition ==
    (PostAnalysed /\ ~SentimentFailed /\ ~EntitiesFailed) =>
        /\ analysis_result.sentiment_score = analyze_text(post_in.classifier).sentiment_score
        /\ analysis_result.sentiment_label = analyze_text(post_in.classifier).sentiment_label
        /\ analysis_result.confidence_score = analyze_text(post_in.classifier).confidence_score
        /\ analysis_result.mentioned_stocks = post_entities.stocks
        /\ analysis_result.mentioned_companies = post_entities.companies
        /\ SeqRange(analysis_result.mentioned_stocks) = ReportedFor("stocks")
        /\ SeqRange(analysis_result.mentioned_companies) = ReportedFor("companies")
        /\ ( /\ post_in.classifier.result.label = <<"P","O","S","I","T","I","V","E">>
             /\ post_in.classifier.result.score = Unit - Res
             /\ Len(post_in.recognizer.entities) = 1
             /\ post_in.recognizer.entities[1].word = T_TSLA ) =>
               /\ analysis_result.sentiment_score = Unit - Res
               /\ analysis_result.sentiment_label = "positive"
               /\ analysis_result.mentioned_stocks = <<T_TSLA>>
               /\ analysis_result.mentioned_companies = <<>>

C20_Witness ==
    /\ PostAnalysed
    /\ post_in.classifier.result.label = <<"P","O","S","I","T","I","V","E">>
    /\ post_in.recognizer.kind = "list"
    /\ Len(post_in.recognizer.entities) = 1
    /\ post_in.recognizer.entities[1].word = T_TSLA
    /\ analysis_result.sentiment_score = Unit - Res
    /\ analysis_result.sentiment_label = "positive"
    /\ analysis_result.mentioned_stocks = <<T_TSLA>>
    /\ analysis_result.mentioned_companies = <<>>

\* C21: every record analyze_social_media_post returns, composed in the try
\* branch or built in the except branch, carries the caller's kol_id and
\* post_id unchanged, an analysis timestamp, and model_used equal to the
\* configured sentiment model identifier.
C21_RecordIsStamped ==
    /\ PostAnalysed =>
        /\ analysis_result.status = "returned"
        /\ analysis_result.kol_id = post_in.kol_id
        /\ analysis_result.post_id = post_in.post_id
        /\ {"kol_id", "post_id", "analysis_timestamp", "model_used"}
               \subseteq analysis_result.keys
        /\ analysis_result.model_used = SENTIMENT_MODEL
    /\ \A key \in PostKeys :
        LET record == FallbackRecord(key.kol_id, key.post_id)
        IN  /\ record.kol_id = key.kol_id
            /\ record.post_id = key.post_id
            /\ {"kol_id", "post_id", "analysis_timestamp", "model_used"}
                   \subseteq record.keys
            /\ record.model_used = SENTIMENT_MODEL

\* A post whose classifier call failed has been stamped with the keys of the
\* second caller.
C21_Witness ==
    /\ PostAnalysed
    /\ post_in.kol_id = 2
    /\ post_in.post_id = 8
    /\ analysis_result.kol_id = 2
    /\ analysis_result.post_id = 8
    /\ analysis_result.model_used = SENTIMENT_MODEL
    /\ "analysis_timestamp" \in analysis_result.keys
    /\ SentimentFailed

\* ------------------------------------------ NamedEntityRecognizer (C22, C26)

\* C22: a second extract_entities call for which the recognizer reports the
\* same spans as for the call before it returns the same outcome and, bucket
\* by bucket, the same set of strings (the order within a bucket may
\* differ): nothing the first call did changes the second.
C22_SameSpansSameBuckets ==
    [][ (recognizer_out.kind # "none" /\ recognizer_out' = recognizer_out) =>
          /\ entities'.status = entities.status
          /\ entities'.keys = entities.keys
          /\ \A b \in BucketNames : SeqRange(entities'[b]) = SeqRange(entities[b]) ]_vars

\* A call has filled one bucket with two strings, so that a repeated call
\* has two orders to choose from.
C22_Witness ==
    /\ LoopCompleted
    /\ SpanCount = 2
    /\ Len(entities.stocks) = 2
    /\ entities.stocks[1] # entities.stocks[2]

\* C26: when a span of the recognizer's output lacks its text or its tag,
\* extract_entities returns four empty buckets: the well-formed spans before
\* the malformed one are discarded, no bundle is partially filled.
C26_AllOrNothing ==
    ( /\ recognizer_out.kind = "list"
      /\ \E i \in 1..SpanCount : SpanRaises(SpanAt(i)) ) =>
        /\ entities.status = "returned"
        /\ entities.keys = BucketNames
        /\ \A b \in BucketNames : entities[b] = <<>>

\* A ticker came first, a span without text second, and nothing is returned.
C26_Witness ==
    /\ recognizer_out.kind = "list"
    /\ SpanCount = 2
    /\ ~SpanRaises(SpanAt(1))
    /\ BucketsOf(SpanAt(1)) = {"stocks"}
    /\ "word" \notin SpanAt(2).keys
    /\ entities = EmptyBundle

\* --------------------------------------------------- SentimentAnalyzer (C25)

\* C25: the normalizer matches the raw label by case-insensitive substring,
\* testing 'positive', then 'negative', then 'neutral'; the first keyword
\* found decides: raw score, minus raw score, 0.0 (a missing score counts
\* as 0.0).
C25_FirstKeywordWins ==
    GotResult =>
        LET score == GetScore(classifier_out.result)
        IN  /\ LabelHas(KW_positive) => sentiment_result.sentiment_score = score
            /\ (~LabelHas(KW_positive) /\ LabelHas(KW_negative)) =>
                   sentiment_result.sentiment_score = 0 - score
            /\ (~LabelHas(KW_positive) /\ ~LabelHas(KW_negative) /\ LabelHas(KW_neutral)) =>
                   sentiment_result.sentiment_score = 0

\* 'NEGATIVE/neutral' is normalized by 'negative', the earlier keyword, in
\* spite of its upper case.
C25_Witness ==
    /\ GotResult
    /\ RawLabel = <<"N","E","G","A","T","I","V","E","/","n","e","u","t","r","a","l">>
    /\ "score" \in RawKeys
    /\ RawScore = Res
    /\ sentiment_result.sentiment_score = 0 - Res

\* ------------------------------------------ pipeline invocations (C23, C24)

\* C23: one analyze_text call invokes the classifier exactly once and one
\* extract_entities call invokes the recognizer exactly once, also when the
\* invocation fails: the failure is answered by the fallback result, not by
\* a second invocation, whatever that one would have returned.
C23_NoRetry ==
    /\ call_script.target = "classifier" =>
        /\ call_made.invoked = 1
        /\ TryRaises(call_script.classifier[1]) =>
              /\ call_made.sentiment.status = "returned"
              /\ "error" \in call_made.sentiment.keys
              /\ call_made.sentiment.sentiment_score = 0
              /\ call_made.sentiment.sentiment_label = "neutral"
        /\ ~TryRaises(call_script.classifier[1]) =>
              "error" \notin call_made.sentiment.keys
    /\ call_script.target = "recognizer" =>
        /\ call_made.invoked = 1
        /\ ExtractRaises(call_script.recognizer[1]) =>
              /\ call_made.entities.status = "returned"
              /\ \A b \in BucketNames : call_made.entities[b] = <<>>

\* The classifier raised, a second invocation would have succeeded, and the
\* call made one invocation and fell back.
C23_Witness ==
    /\ call_script.target = "classifier"
    /\ call_script.classifier[1].kind = "raise"
    /\ call_script.classifier[2].kind = "result"
    /\ call_made.invoked = 1
    /\ "error" \in call_made.sentiment.keys

\* The number of pipeline invocations of the batch that have started and not
\* yet delivered their result after the first k events.
InFlight(k) ==
    Cardinality({ j \in 1..k : batch_trace[j].ev = "invoke" })
    - Cardinality({ j \in 1..k : batch_trace[j].ev = "append" })

\* C24: analyze_batch invokes the classifier on the texts in input order,
\* and the invocation for text i+1 starts only after the result for text i
\* has been appended; at no point are two invocations of the batch under way.
C24_BatchIsSequential ==
    batch_outs.called =>
        /\ Len(batch_trace) = 2 * BatchLen
        /\ Len(batch_results) = BatchLen
        /\ \A i \in 1..BatchLen :
              /\ batch_trace[2 * i - 1] = [ev |-> "invoke", text |-> i]
              /\ batch_trace[2 * i] = [ev |-> "append", text |-> i]
        /\ \A k \in 0..Len(batch_trace) : InFlight(k) \in {0, 1}

C24_Witness ==
    /\ batch_outs.called
    /\ BatchLen = 2
    /\ batch_trace = << [ev |-> "invoke", text |-> 1], [ev |-> "append", text |-> 1],
                        [ev |-> "invoke", text |-> 2], [ev |-> "append", text |-> 2] >>

\* ------------------------------------------------- KOLService (C27, C28, C30)

\* A row of the table has this username on this platform.
PairStored(username, platform) ==
    \E i \in 1..Len(kols) : kols[i].username = username /\ kols[i].platform = platform

\* C27: no two rows of the kols table share (username, platform); a
\* create_kol whose pair is stored, on an active or a soft-deleted row,
\* raises ValueError and adds no row; no call removes a row or changes the
\* id, the username or the platform of one.
C27_UniqueUsernamePlatform ==
    /\ [](\A i, j \in 1..Len(kols) :
            i # j => <<kols[i].username, kols[i].platform>>
                       # <<kols[j].username, kols[j].platform>>)
    /\ [][ /\ ( /\ kol_call'.op = "create_kol"
                /\ PairStored(kol_call'.data.username, kol_call'.data.platform) ) =>
                  /\ kol_call'.returned = "ValueError"
                  /\ kols' = kols
           /\ Len(kols') >= Len(kols)
           /\ \A i \in 1..Len(kols) :
                /\ kols'[i].id = kols[i].id
                /\ kols'[i].username = kols[i].username
                /\ kols'[i].platform = kols[i].platform ]_vars

\* create_kol has been refused for the pair of a soft-deleted row.
C27_Witness ==
    /\ kol_call.op = "create_kol"
    /\ kol_call.returned = "ValueError"
    /\ Len(kols) = 2
    /\ \E i \in 1..Len(kols) :
         /\ kols[i].username = kol_call.data.username
         /\ kols[i].platform = kol_call.data.platform
         /\ ~kols[i].is_active

\* Search strings, platform filters and follower thresholds of callers.
Queries == { U_elon, <<"B","O","B">> }
PlatformFilters == Platforms \cup {""}
FollowerFilters == {0, 5000}

\* C28: delete_kol on a stored id returns True, keeps every row, and changes
\* only is_active (to False) and updated_at of that row; on an unknown id it
\* returns False and changes nothing.  A row that is not active is in no
\* result of get_kols(active_only=True) or of search_kols, and is what
\* get_kol_by_id returns; only an update_kol of that id with is_active True
\* makes it active again.
C28_SoftDelete ==
    /\ [](\A i \in 1..Len(kols) :
            /\ get_kol_by_id(kols, kols[i].id) = kols[i]
            /\ kols[i].is_active => kols[i] \in SeqRange(get_kols(kols, 0, 100, TRUE, ""))
            /\ ~kols[i].is_active =>
                 /\ \A pf \in PlatformFilters :
                      kols[i] \notin SeqRange(get_kols(kols, 0, 100, TRUE, pf))
                 /\ \A q \in Queries, pf \in PlatformFilters, mf \in FollowerFilters :
                      kols[i] \notin SeqRange(search_kols(kols, q, pf, mf)))
    /\ [][ /\ kol_call'.op = "delete_kol" =>
                LET i == RowOf(kols, kol_call'.kol_id)
                IN  IF i = 0
                    THEN kol_call'.returned = "False" /\ kols' = kols
                    ELSE /\ kol_call'.returned = "True"
                         /\ Len(kols') = Len(kols)
                         /\ ~kols'[i].is_active
                         /\ kols'[i].updated_at = "utcnow"
                         /\ kols' = [ kols EXCEPT ![i].is_active = FALSE,
                                                  ![i].updated_at = "utcnow" ]
           /\ \A i \in 1..Len(kols) :
                (i <= Len(kols') /\ ~kols[i].is_active /\ kols'[i].is_active) =>
                    /\ kol_call'.op = "update_kol"
                    /\ kol_call'.kol_id = kols[i].id
                    /\ "is_active" \in kol_call'.update.set
                    /\ kol_call'.update.is_active ]_vars

\* The first of two rows has been soft-deleted: it is still stored, the
\* other is active and found by a search that matches both.
C28_Witness ==
    /\ kol_call.op = "delete_kol"
    /\ kol_call.kol_id = 1
    /\ kol_call.returned = "True"
    /\ Len(kols) = 2
    /\ ~kols[1].is_active
    /\ kols[2].is_active
    /\ get_kol_by_id(kols, 1) = kols[1]
    /\ search_kols(kols, U_elon, "", 0) = <<kols[2]>>

\* C30: update_influence_score on a stored id stores
\* 0.4*min(followers_count/1,000,000, 1) + 0.3*min(recent_posts/100, 1)
\* + 0.3*min(avg_engagement/1000, 1), and the stored score lies in [0,1];
\* on an unknown id it returns False.
C30_InfluenceScoreInRange ==
    kol_call.op = "update_influence_score" =>
        IF RowOf(kols, kol_call.kol_id) = 0
        THEN kol_call.returned = "False"
        ELSE LET kol == get_kol_by_id(kols, kol_call.kol_id)
             IN  /\ kol_call.returned = "True"
                 /\ kol.influence_score =
                      InfluenceScore(kol.followers_count, kol_call.posts.recent_posts,
                                     kol_call.posts.avg_engagement)
                 /\ kol.influence_score >= 0
                 /\ kol.influence_score <= ScoreOne

\* --------------------------------------------------- user store (C29)

\* C29: _users_store and _users_by_id refer to the same user dicts, one per
\* accepted registration; the k-th accepted registration has id k and is
\* filed under k and under its trimmed, lower-cased email; the emails are
\* pairwise different; _next_user_id is one more than the number of users;
\* and a registration answered with 400 changes neither map, no user dict,
\* and not _next_user_id.
C29_UserStoreConsistent ==
    /\ [](LET emails == DOMAIN users_store
              ids    == DOMAIN users_by_id
          IN  /\ { users_store[e] : e \in emails } = { users_by_id[i] : i \in ids }
              /\ Cardinality(emails) = Len(registered)
              /\ Cardinality(ids) = Len(registered)
              /\ ids = 1..Len(registered)
              /\ \A k \in 1..Len(registered) :
                   /\ registered[k] \in emails
                   /\ users_by_id[k] = users_store[registered[k]]
                   /\ user_heap[users_by_id[k]].id = k
                   /\ user_heap[users_by_id[k]].email = registered[k]
              /\ \A j, k \in 1..Len(registered) : j # k => registered[j] # registered[k]
              /\ \A e \in emails : Lower(strip(e)) = e
              /\ next_user_id = Len(registered) + 1)
    /\ [][ (user_call'.op = "register_user" /\ user_call'.status = 400) =>
              UNCHANGED <<users_store, users_by_id, next_user_id, user_heap>> ]_vars

\* Three users are registered, the second has set preferences, and a
\* further registration has just been refused.
C29_Witness ==
    /\ Len(registered) = 3
    /\ next_user_id = 4
    /\ user_heap[users_store[registered[2]]].preferences = {"dark"}
    /\ user_heap[users_by_id[2]].updated_at = "now"
    /\ user_call.op = "register_user"
    /\ user_call.status = 400

====
